---- MODULE Spec2Model ----
(***************************************************************************)
(* HammyCam motion detection.                                              *)
(*                                                                         *)
(*   - CameraAnalyzer (src/camera_analyzer.py): the percentage variant,    *)
(*     was_motion_detected, and the driver loop run.                       *)
(*   - MotionDetector (src/examples/example_motion_detector.py): the       *)
(*     contour variant, detect_motion, and its loop start.                 *)
(*                                                                         *)
(* A frame is a record [h, w, px]: px is the row-major sequence of its     *)
(* h*w pixels, a colour pixel being <<b, g, r>> and a grayscale pixel an   *)
(* integer.  None, the absent frame, is the record of height -1.           *)
(***************************************************************************)
EXTENDS Integers, Sequences, FiniteSets, TLC

None == [h |-> -1, w |-> -1, px |-> <<>>]

\* frame is None
IsNone(f) == f.h < 0

(***************************************************************************)
(* OpenCV primitives, as the 8-bit implementations compute them.           *)
(***************************************************************************)

\* cv2.cvtColor(_, COLOR_BGR2GRAY) on one 8-bit pixel: 14-bit fixed point
\* (R2Y = 4899, G2Y = 9617, B2Y = 1868), rounded.
GrayOf(p) == (1868 * p[1] + 9617 * p[2] + 4899 * p[3] + 8192) \div 16384

\* The function f with its values computed once.
Eager(f) == f @@ <<>>

\* Pixel i of a row-major image of width w sits at column XOf, row YOf.
XOf(i, w) == (i - 1) % w
YOf(i, w) == (i - 1) \div w
At(x, y, w) == y * w + x + 1

\* A frame with no pixels (cv::Mat::empty).
IsEmpty(f) == f.h * f.w = 0

\* cv2.cvtColor(frame, cv2.COLOR_BGR2GRAY) on a non-empty frame.
cvtColor(f) ==
    [h |-> f.h, w |-> f.w, px |-> Eager([i \in 1..(f.h * f.w) |-> GrayOf(f.px[i])])]

Abs(x) == IF x < 0 THEN 0 - x ELSE x

\* cv2.absdiff on two grayscale images of one shape.
absdiff(a, b) ==
    [h |-> a.h, w |-> a.w, px |-> Eager([i \in 1..(a.h * a.w) |-> Abs(a.px[i] - b.px[i])])]

SameShape(a, b) == a.h = b.h /\ a.w = b.w

\* Mutant of ThresholdBinary: the flag is cv2.THRESH_BINARY_INV, 255 where
\* src <= t.
ThresholdBinaryInv(g, t) ==
    [h |-> g.h, w |-> g.w,
     px |-> Eager([i \in 1..(g.h * g.w) |-> IF g.px[i] > t THEN 0 ELSE 255])]

\* cv2.threshold(src, t, 255, cv2.THRESH_BINARY): 255 where src > t, else 0.
ThresholdBinary(g, t) ==
    [h |-> g.h, w |-> g.w,
     px |-> Eager([i \in 1..(g.h * g.w) |-> IF g.px[i] > t THEN 255 ELSE 0])]

\* np.count_nonzero
count_nonzero(g) == Cardinality({i \in 1..(g.h * g.w) : g.px[i] # 0})

\* The blur kernel of detect_motion: cv2.GaussianBlur(gray, (21, 21), 0).
KSize == 21

\* cv::getGaussianKernel(21, 0): sigma = 0.3 * ((21 - 1) * 0.5 - 1) + 0.8 = 3.5,
\* in the 8-bit fixed point of the 8-bit filter (the weights sum to 256).
GaussianKernel == <<0, 1, 2, 4, 7, 11, 15, 20, 25, 28, 30, 28, 25, 20, 15, 11, 7, 4, 2, 1, 0>>

\* cv::borderInterpolate(p, len, BORDER_REFLECT_101), the filter's border.
Reflect101(p, len) ==
    IF len = 1 THEN 0
    ELSE LET m == 2 * (len - 1)
             q == p % m
         IN  IF q < len THEN q ELSE m - q

\* The kernel applied to its KSize samples tap[1..j].
RECURSIVE KernelSum(_, _)
KernelSum(tap, j) == IF j = 0 THEN 0 ELSE GaussianKernel[j] * tap[j] + KernelSum(tap, j - 1)

\* cv2.GaussianBlur(gray, (21, 21), 0): the separable filter, rows then
\* columns, rounded back to 8 bits.
GaussianBlur(g) ==
    LET n == g.h * g.w
        r == KSize \div 2
        rowpass == Eager([i \in 1..n |->
            KernelSum([j \in 1..KSize |->
                g.px[At(Reflect101(XOf(i, g.w) + j - 1 - r, g.w), YOf(i, g.w), g.w)]], KSize)])
        colpass == Eager([i \in 1..n |->
            KernelSum([j \in 1..KSize |->
                rowpass[At(XOf(i, g.w), Reflect101(YOf(i, g.w) + j - 1 - r, g.h), g.w)]], KSize)])
    IN  [h |-> g.h, w |-> g.w, px |-> Eager([i \in 1..n |-> (colpass[i] + 32768) \div 65536])]

\* One pass of cv2.dilate(thresh, None): the 3 x 3 maximum; pixels outside
\* the image do not count.
Dilate3x3(g) ==
    [h |-> g.h, w |-> g.w,
     px |-> Eager([i \in 1..(g.h * g.w) |->
                IF \E dx \in {-1, 0, 1}, dy \in {-1, 0, 1} :
                       LET x == XOf(i, g.w) + dx
                           y == YOf(i, g.w) + dy
                       IN  /\ x >= 0 /\ x < g.w /\ y >= 0 /\ y < g.h
                           /\ g.px[At(x, y, g.w)] # 0
                THEN 255 ELSE 0])]

\* cv2.dilate(thresh, None, iterations=n)
RECURSIVE dilate(_, _)
dilate(g, iterations) == IF iterations = 0 THEN g ELSE dilate(Dilate3x3(g), iterations - 1)

Adjacent8(i, j, w) == Abs(XOf(i, w) - XOf(j, w)) <= 1 /\ Abs(YOf(i, w) - YOf(j, w)) <= 1

Adjacent4(i, j, w) == Abs(XOf(i, w) - XOf(j, w)) + Abs(YOf(i, w) - YOf(j, w)) = 1

\* The pixels of F that the pixels of front reach through 8-neighbours.
RECURSIVE Grow8(_, _, _, _)
Grow8(done, front, F, w) ==
    IF front = {} THEN done
    ELSE LET seen == done \cup front
             new == {j \in F \ seen : \E i \in front : Adjacent8(i, j, w)}
         IN  Grow8(seen, new, F, w)

\* The same through 4-neighbours.
RECURSIVE Grow4(_, _, _, _)
Grow4(done, front, F, w) ==
    IF front = {} THEN done
    ELSE LET seen == done \cup front
             new == {j \in F \ seen : \E i \in front : Adjacent4(i, j, w)}
         IN  Grow4(seen, new, F, w)

Min(S) == CHOOSE m \in S : \A n \in S : m <= n
Max(S) == CHOOSE m \in S : \A n \in S : m >= n

\* The 8-connected components of the pixel set F.
RECURSIVE Components(_, _)
Components(F, w) ==
    IF F = {} THEN {}
    ELSE LET C == Grow8({}, {CHOOSE i \in F : TRUE}, F, w)
         IN  {C} \cup Components(F \ C, w)

OnBorder(i, h, w) == XOf(i, w) = 0 \/ XOf(i, w) = w - 1 \/ YOf(i, w) = 0 \/ YOf(i, w) = h - 1

\* What the outer border of component C encloses: C, its holes and whatever
\* lies in them.
Filled(C, h, w) ==
    LET rest == (1..(h * w)) \ C
        ext == Grow4({}, {i \in rest : OnBorder(i, h, w)}, rest, w)
    IN  (1..(h * w)) \ ext

\* cv2.findContours(thresh, cv2.RETR_EXTERNAL, cv2.CHAIN_APPROX_SIMPLE): the
\* outer borders of the components that lie in no other component's hole, each
\* given by its component.
findContours(g) ==
    LET F == {i \in 1..(g.h * g.w) : g.px[i] # 0}
        all == Components(F, g.w)
    IN  IF Cardinality(all) <= 1 THEN all
        ELSE {C \in all : \A D \in all : D = C \/ ~(C \subseteq Filled(D, g.h, g.w))}

RECURSIVE SumOver(_, _)
SumOver(S, f) ==
    IF S = {} THEN 0 ELSE LET e == CHOOSE c \in S : TRUE IN f[e] + SumOver(S \ {e}, f)

\* Twice cv2.contourArea(contour): the area of the polygon through the centres
\* of the border pixels.  A unit cell between four pixel centres lies inside
\* it when all four pixels are enclosed, half of it when three are.
contourArea2(C, h, w) ==
    LET inside == Filled(C, h, w)
        cells == (0..(w - 2)) \X (0..(h - 2))
        corners(c) == {At(c[1], c[2], w), At(c[1] + 1, c[2], w),
                       At(c[1], c[2] + 1, w), At(c[1] + 1, c[2] + 1, w)}
        weight == [c \in cells |-> LET k == Cardinality(corners(c) \cap inside)
                                   IN  IF k = 4 THEN 2 ELSE IF k = 3 THEN 1 ELSE 0]
    IN  SumOver(cells, weight)

\* cv2.boundingRect(contour)
boundingRect(C, w) ==
    LET xs == {XOf(i, w) : i \in C}
        ys == {YOf(i, w) : i \in C}
    IN  [x |-> Min(xs), y |-> Min(ys), w |-> Max(xs) - Min(xs) + 1, h |-> Max(ys) - Min(ys) + 1]

\* The colour of the boxes, (0, 255, 0).
Green == <<0, 255, 0>>

\* cv2.rectangle(frame, (x, y), (x + w, y + h), (0, 255, 0), 2) writes into
\* frame: the outline between the two corners, as far as it lies in the image
\* (the stroke of thickness 2 covers these pixels).
rectangle(f, r) ==
    [h |-> f.h, w |-> f.w,
     px |-> Eager([i \in 1..(f.h * f.w) |->
                LET x == XOf(i, f.w)
                    y == YOf(i, f.w)
                IN  IF /\ x >= r.x /\ x <= r.x + r.w /\ y >= r.y /\ y <= r.y + r.h
                       /\ (x = r.x \/ x = r.x + r.w \/ y = r.y \/ y = r.y + r.h)
                    THEN Green ELSE f.px[i]])]

RECURSIVE DrawAll(_, _)
DrawAll(f, rects) ==
    IF rects = {} THEN f
    ELSE LET r == CHOOSE c \in rects : TRUE IN DrawAll(rectangle(f, r), rects \ {r})

(***************************************************************************)
(* CameraAnalyzer: the percentage variant.                                 *)
(***************************************************************************)

\* The intensity threshold of was_motion_detected.
IntensityThreshold == 25

\* self.motion_threshold = 0.30, in hundredths of a percent.  change_percent
\* is (changed_pixels / total_pixels) * 100 in double precision; for every
\* total_pixels up to 200000 and changed_pixels next to the boundary the double
\* comparison with 0.30 agrees with the exact one, which is what is modelled.
motion_threshold_x100 == 30

\* Mutant of PercentAtLeast: the comparison is strict.
PercentAbove(changed_pixels, total_pixels, threshold_x100) ==
    changed_pixels * 100 * 100 > threshold_x100 * total_pixels

\* change_percent >= self.motion_threshold, on exact rationals.
PercentAtLeast(changed_pixels, total_pixels, threshold_x100) ==
    changed_pixels * 100 * 100 >= threshold_x100 * total_pixels

\* CameraAnalyzer.was_motion_detected: [kind |-> "ok", value |-> BOOLEAN], or
\* the exception the call raises.  cv2.cvtColor raises cv2.error on None and
\* on an empty image, cv2.absdiff on images of different shapes.
was_motion_detected(frame, last_frame) ==
    IF IsNone(frame) \/ IsNone(last_frame)
    THEN [kind |-> "cv2.error", value |-> FALSE]
    ELSE IF IsEmpty(frame) \/ IsEmpty(last_frame)
    THEN [kind |-> "cv2.error", value |-> FALSE]
    ELSE LET gray1 == cvtColor(frame)
             gray2 == cvtColor(last_frame)
         IN  IF ~SameShape(gray1, gray2)
             THEN [kind |-> "cv2.error", value |-> FALSE]
             ELSE LET diff == absdiff(gray1, gray2)
                      thresh == ThresholdBinary(diff, IntensityThreshold)
                      changed_pixels == count_nonzero(thresh)
                      total_pixels == thresh.h * thresh.w
                  IN  [kind |-> "ok",
                       value |-> PercentAtLeast(changed_pixels, total_pixels,
                                                motion_threshold_x100)]

(***************************************************************************)
(* Synthetic frames.                                                       *)
(***************************************************************************)

\* The gray pixel of level v.
Solid(v) == <<v, v, v>>

\* The frame of shape <<h, w>> whose pixels all are p.
Uniform(shape, p) ==
    [h |-> shape[1], w |-> shape[2], px |-> Eager([i \in 1..(shape[1] * shape[2]) |-> p])]

\* The frame whose first k pixels, in row-major order, are q and the rest p.
Patched(shape, k, p, q) ==
    [h |-> shape[1], w |-> shape[2],
     px |-> Eager([i \in 1..(shape[1] * shape[2]) |-> IF i <= k THEN q ELSE p])]


(***************************************************************************)
(* State.                                                                  *)
(*   pct_*: one call of was_motion_detected on its own.                    *)
(*   The driver CameraAnalyzer.run: the instance's fields source_type,     *)
(*   cap, frame_count; the arguments max_frames, save_interval (-1 is      *)
(*   None); the locals frame, last_frame, motion_detected; pc, the line    *)
(*   the run is at; exc, the exception in flight; the source (image_file,  *)
(*   video_left); the registered reactions; and history counters.          *)
(*   The contour detector MotionDetector: its fields threshold, min_area,  *)
(*   previous_frame; caller_frame, the caller's frame object after the     *)
(*   last call; the frames passed so far (inputs, as indices of            *)
(*   ContourFrames) with the verdicts returned; the boxes drawn and the    *)
(*   contours found by the last call.                                      *)
(***************************************************************************)
VARIABLES pct_frame, pct_last, pct_in, pct_result,
          source_type, cap, frame_count, max_frames, save_interval,
          frame, last_frame, motion_detected, pc, exc,
          image_file, video_left, reactions, invoked,
          connected, interrupted, cleanup_calls, summary_calls,
          detect_calls, detect_failure, true_processed, motion_reports,
          det_pc, threshold, min_area, previous_frame, caller_frame,
          inputs, verdicts, boxes, contours

pctVars == <<pct_frame, pct_last, pct_in, pct_result>>

selfVars == <<source_type, cap, frame_count>>
argVars == <<max_frames, save_interval>>
localVars == <<frame, last_frame, motion_detected>>
envVars == <<image_file, video_left>>
reactVars == <<reactions, invoked>>
histVars == <<connected, interrupted, cleanup_calls, summary_calls,
              detect_calls, detect_failure, true_processed, motion_reports>>

drvVars == <<selfVars, argVars, localVars, pc, exc, envVars, reactVars, histVars>>

detVars == <<det_pc, threshold, min_area, previous_frame, caller_frame,
             inputs, verdicts, boxes, contours>>

\* What the driver's steps leave alone.
outsideDriver == <<pctVars, detVars>>

\* What a call of was_motion_detected on its own leaves alone.
outsidePct == <<drvVars, detVars>>

\* What the contour detector's steps leave alone.
outsideDetector == <<pctVars, drvVars>>

vars == <<pctVars, drvVars, detVars>>

(***************************************************************************)
(* The driver: CameraAnalyzer.run.                                         *)
(***************************************************************************)

\* The most frames a run of the model processes.
MaxFrameCount == 3

\* The most frames a video file holds.
MaxVideoFrames == 2

\* The most reactions registered on one driver.
MaxReactions == 1

\* None as a value of max_frames and save_interval.
NoneArg == -1

SourceTypes == {"fake", "webcam", "video", "image"}

DarkFrame == Uniform(<<1, 2>>, Solid(0))
BrightFrame == Uniform(<<1, 2>>, Solid(255))
TallFrame == Uniform(<<2, 2>>, Solid(0))

\* What a capture device or a video file delivers: frames of one shape.
StreamFrames == {DarkFrame, BrightFrame}

\* What web/current_frame.jpg or an image file may hold: its resolution is
\* whatever the writer was configured with.
FileFrames == StreamFrames \cup {TallFrame}

\* A Python condition "if x" on an int or None.
Truthy(x) == x # NoneArg /\ x # 0

\* CameraAnalyzer.__init__: cap is None, frame_count is 0, no reaction.
InitDriver ==
    /\ source_type \in SourceTypes
    /\ cap = "None"
    /\ frame_count = 0
    /\ max_frames = NoneArg
    /\ save_interval = NoneArg
    /\ frame = None
    /\ last_frame = None
    /\ motion_detected = FALSE
    /\ pc = "new"
    /\ exc = "none"
    /\ image_file \in FileFrames
    /\ video_left \in 0..MaxVideoFrames
    /\ reactions = 0
    /\ invoked = <<>>
    /\ connected = FALSE
    /\ interrupted = FALSE
    /\ cleanup_calls = 0
    /\ summary_calls = 0
    /\ detect_calls = 0
    /\ detect_failure = "none"
    /\ true_processed = 0
    /\ motion_reports = 0

\* The driver is not part of the specification.
IdleDriver ==
    /\ source_type = "image"
    /\ cap = "None"
    /\ frame_count = 0
    /\ max_frames = NoneArg
    /\ save_interval = NoneArg
    /\ frame = None
    /\ last_frame = None
    /\ motion_detected = FALSE
    /\ pc = "idle"
    /\ exc = "none"
    /\ image_file = None
    /\ video_left = 0
    /\ reactions = 0
    /\ invoked = <<>>
    /\ connected = FALSE
    /\ interrupted = FALSE
    /\ cleanup_calls = 0
    /\ summary_calls = 0
    /\ detect_calls = 0
    /\ detect_failure = "none"
    /\ true_processed = 0
    /\ motion_reports = 0

\* The contour detector is not part of the specification.
IdleDetector ==
    /\ det_pc = "idle"
    /\ threshold = 0
    /\ min_area = 0
    /\ previous_frame = None
    /\ caller_frame = None
    /\ inputs = <<>>
    /\ verdicts = <<>>
    /\ boxes = {}
    /\ contours = {}

\* No call of was_motion_detected on its own is part of the specification.
IdlePct ==
    /\ pct_frame = None
    /\ pct_last = None
    /\ pct_in = [n |-> 0, k |-> 0, diff |-> 0, same |-> TRUE]
    /\ pct_result = [kind |-> "none", value |-> FALSE]

\* reader.add_reaction(reaction): appends the reaction to the driver's list.
add_reaction ==
    /\ pc = "new"
    /\ reactions < MaxReactions
    /\ reactions' = reactions + 1
    /\ invoked' = Append(invoked, 0)
    /\ UNCHANGED <<selfVars, argVars, localVars, pc, exc, envVars, histVars>>
    /\ UNCHANGED outsideDriver

\* self.connect(): TRUE when the source is there; a webcam or a video leaves
\* an opened cv2.VideoCapture in self.cap, a failed one a closed one.
ConnectResult(ok) ==
    IF source_type \in {"webcam", "video"}
    THEN (IF ok THEN "open" ELSE "closed")
    ELSE "None"

\* run(max_frames, fps, save_interval, output_dir), lines 246-267: connect,
\* return when it fails, create the output directory, print the banner.
Run ==
    /\ pc = "new"
    /\ \E mf \in {NoneArg} \cup (0..2), si \in {NoneArg, 2}, ok \in BOOLEAN :
        /\ max_frames' = mf
        /\ save_interval' = si
        /\ cap' = ConnectResult(ok)
        /\ connected' = ok
        /\ pc' = IF ok THEN "init_read" ELSE "done"
    /\ UNCHANGED <<source_type, frame_count, localVars, exc, envVars, reactVars,
                   interrupted, cleanup_calls, summary_calls, detect_calls,
                   detect_failure, true_processed, motion_reports>>
    /\ UNCHANGED outsideDriver

\* self.read_frame(): the frames the source can deliver now, None for a failed
\* read (ret is False exactly when the frame is None).  The image file is
\* static; the fake camera's file is rewritten between reads and may not
\* decode; a video delivers its frames and then fails.
read_frame ==
    CASE source_type = "image" -> {image_file}
      [] source_type = "fake" -> FileFrames \cup {None}
      [] source_type = "webcam" -> StreamFrames \cup {None}
      [] source_type = "video" -> IF video_left > 0 THEN StreamFrames ELSE {None}

\* The video file's position after one read.
Advance == IF source_type = "video" /\ video_left > 0 THEN video_left - 1 ELSE video_left

\* Line 270: ret, last_frame = self.read_frame(), before the try block.
InitialRead ==
    /\ pc = "init_read"
    /\ \E f \in read_frame : last_frame' = f
    /\ video_left' = Advance
    /\ pc' = "check"
    /\ UNCHANGED <<selfVars, argVars, frame, motion_detected, exc, image_file,
                   reactVars, histVars>>
    /\ UNCHANGED outsideDriver

\* Lines 275-277: if max_frames and self.frame_count >= max_frames: break.
CheckLimit ==
    /\ pc = "check"
    /\ pc' = IF Truthy(max_frames) /\ frame_count >= max_frames THEN "cleanup" ELSE "read"
    /\ UNCHANGED <<selfVars, argVars, localVars, exc, envVars, reactVars, histVars>>
    /\ UNCHANGED outsideDriver

\* Lines 280-287: read a frame; on a failed read a video or fake source
\* sleeps and continues, any other source breaks.
ReadFrame ==
    /\ pc = "read"
    /\ frame_count < MaxFrameCount
    /\ \E f \in read_frame :
        /\ frame' = f
        /\ pc' = IF ~IsNone(f) THEN "detect"
                 ELSE IF source_type \in {"video", "fake"} THEN "retry_sleep"
                 ELSE "cleanup"
    /\ video_left' = Advance
    /\ UNCHANGED <<selfVars, argVars, last_frame, motion_detected, exc, image_file,
                   reactVars, histVars>>
    /\ UNCHANGED outsideDriver

\* Lines 283-284: time.sleep(0.1); continue.
RetrySleep ==
    /\ pc = "retry_sleep"
    /\ pc' = "check"
    /\ UNCHANGED <<selfVars, argVars, localVars, exc, envVars, reactVars, histVars>>
    /\ UNCHANGED outsideDriver

\* Why a detection call raised.
FailureOf(f, l) ==
    IF IsNone(f) \/ IsNone(l) THEN "absent"
    ELSE IF IsEmpty(f) \/ IsEmpty(l) THEN "empty"
    ELSE IF ~SameShape(f, l) THEN "mismatch"
    ELSE "none"

\* Line 289: motion_detected = self.was_motion_detected(frame, last_frame).
\* An exception it raises is no KeyboardInterrupt: it leaves the loop through
\* the finally clause.
Detect ==
    /\ pc = "detect"
    /\ \E r \in {was_motion_detected(frame, last_frame)} :
           /\ detect_calls' = detect_calls + 1
           /\ detect_failure' = FailureOf(frame, last_frame)
           /\ IF r.kind = "ok"
              THEN /\ motion_detected' = r.value
                   /\ pc' = "react"
                   /\ exc' = exc
              ELSE /\ motion_detected' = motion_detected
                   /\ pc' = "cleanup"
                   /\ exc' = r.kind
    /\ UNCHANGED <<selfVars, argVars, frame, last_frame, envVars, reactVars,
                   connected, interrupted, cleanup_calls, summary_calls,
                   true_processed, motion_reports>>
    /\ UNCHANGED outsideDriver

\* The driver's dispatch: every registered reaction's run() is called once.
DispatchReactions(inv) == [r \in DOMAIN inv |-> inv[r] + 1]

\* Mutant of React: the motion is reported whatever the verdict.
ReactAlways ==
    /\ pc = "react"
    /\ motion_reports' = motion_reports + 1
    /\ invoked' = [r \in DOMAIN invoked |-> invoked[r] + 1]
    /\ pc' = "count"
    /\ UNCHANGED <<selfVars, argVars, localVars, exc, envVars, reactions,
                   connected, interrupted, cleanup_calls, summary_calls,
                   detect_calls, detect_failure, true_processed>>
    /\ UNCHANGED outsideDriver

\* Lines 290-291: if motion_detected: report the motion, here by
\* print("Motion detected") and by the registered reactions.
React ==
    /\ pc = "react"
    /\ IF motion_detected
       THEN /\ motion_reports' = motion_reports + 1
            /\ invoked' = DispatchReactions(invoked)
       ELSE UNCHANGED <<motion_reports, invoked>>
    /\ pc' = "count"
    /\ UNCHANGED <<selfVars, argVars, localVars, exc, envVars, reactions,
                   connected, interrupted, cleanup_calls, summary_calls,
                   detect_calls, detect_failure, true_processed>>
    /\ UNCHANGED outsideDriver

\* Lines 293-294: self.frame_count += 1; last_frame = frame.
Count ==
    /\ pc = "count"
    /\ frame_count' = frame_count + 1
    /\ last_frame' = frame
    /\ true_processed' = true_processed + (IF motion_detected THEN 1 ELSE 0)
    /\ pc' = "save"
    /\ UNCHANGED <<source_type, cap, argVars, frame, motion_detected, exc, envVars,
                   reactVars, connected, interrupted, cleanup_calls, summary_calls,
                   detect_calls, detect_failure, motion_reports>>
    /\ UNCHANGED outsideDriver

\* Lines 298-305: the auto-save.  cv2.imwrite(str(filename), annotated) names
\* a variable run never assigns, so a due save raises NameError.
Save ==
    /\ pc = "save"
    /\ IF Truthy(save_interval) /\ frame_count % save_interval = 0
       THEN /\ exc' = "NameError"
            /\ pc' = "cleanup"
       ELSE /\ exc' = exc
            /\ pc' = "sleep"
    /\ UNCHANGED <<selfVars, argVars, localVars, envVars, reactVars, histVars>>
    /\ UNCHANGED outsideDriver

\* Lines 308-309: a fake or image source sleeps 1/fps; then the next turn.
Sleep ==
    /\ pc = "sleep"
    /\ pc' = "check"
    /\ UNCHANGED <<selfVars, argVars, localVars, exc, envVars, reactVars, histVars>>
    /\ UNCHANGED outsideDriver

\* The lines of the try block.
TryLines == {"check", "read", "retry_sleep", "detect", "react", "count", "save", "sleep"}

\* The lines of run after connect.
RunLines == {"init_read", "except", "cleanup", "summary"} \cup TryLines

\* A KeyboardInterrupt (Ctrl+C), once in a run, at whatever line the run is
\* at: inside the try block the except clause catches it, anywhere else it
\* leaves run at once.
Interrupt ==
    /\ pc \in RunLines
    /\ ~interrupted
    /\ interrupted' = TRUE
    /\ exc' = "KeyboardInterrupt"
    /\ pc' = IF pc \in TryLines THEN "except" ELSE "raised"
    /\ UNCHANGED <<selfVars, argVars, localVars, envVars, reactVars,
                   connected, cleanup_calls, summary_calls, detect_calls,
                   detect_failure, true_processed, motion_reports>>
    /\ UNCHANGED outsideDriver

\* Lines 311-312: except KeyboardInterrupt: print.
ExceptKeyboardInterrupt ==
    /\ pc = "except"
    /\ exc' = "none"
    /\ pc' = "cleanup"
    /\ UNCHANGED <<selfVars, argVars, localVars, envVars, reactVars, histVars>>
    /\ UNCHANGED outsideDriver

\* CameraAnalyzer.cleanup, called at line 315: if self.cap: release it.
cleanup ==
    /\ pc = "cleanup"
    /\ cap' = IF cap = "None" THEN cap ELSE "released"
    /\ cleanup_calls' = cleanup_calls + 1
    /\ pc' = "summary"
    /\ UNCHANGED <<source_type, frame_count, argVars, localVars, exc, envVars,
                   reactVars, connected, interrupted, summary_calls, detect_calls,
                   detect_failure, true_processed, motion_reports>>
    /\ UNCHANGED outsideDriver

\* CameraAnalyzer.print_summary, called at line 316; then the finally clause
\* re-raises the exception in flight, if any.
print_summary ==
    /\ pc = "summary"
    /\ summary_calls' = summary_calls + 1
    /\ pc' = IF exc = "none" THEN "done" ELSE "raised"
    /\ UNCHANGED <<selfVars, argVars, localVars, exc, envVars, reactVars,
                   connected, interrupted, cleanup_calls, detect_calls,
                   detect_failure, true_processed, motion_reports>>
    /\ UNCHANGED outsideDriver

Next ==
    \/ add_reaction
    \/ Run
    \/ InitialRead
    \/ CheckLimit
    \/ ReadFrame
    \/ RetrySleep
    \/ Detect
    \/ React
    \/ Count
    \/ Save
    \/ Sleep
    \/ Interrupt
    \/ ExceptKeyboardInterrupt
    \/ cleanup
    \/ print_summary


(***************************************************************************)
(* MotionDetector: the contour variant.                                    *)
(***************************************************************************)

\* cv2.dilate(thresh, None, iterations=2)
DilateIterations == 2

\* The most calls of detect_motion on one detector.
MaxCalls == 3

\* The frames of the capture: 3 rows of 30 pixels, black with white columns.
DetShape == <<3, 30>>

Bars(cols) ==
    [h |-> DetShape[1], w |-> DetShape[2],
     px |-> Eager([i \in 1..(DetShape[1] * DetShape[2]) |->
                IF XOf(i, DetShape[2]) \in cols THEN Solid(255) ELSE Solid(0)])]

\* Against the black frame, column 3 gives a contour of area 14 and box
\* (0, 0, 8, 3), columns 22 and 23 one of area 26 and box (16, 0, 14, 3).
ContourFrames == <<Bars({}), Bars({3}), Bars({3, 22, 23})>>

\* MotionDetector(camera_index, threshold, min_area): <<threshold, min_area>>,
\* the defaults being 25 and 500.
DetectorConfigs == {<<25, 500>>, <<25, 14>>, <<25, 15>>, <<300, -1>>}

InitDetector ==
    /\ det_pc = "none"
    /\ threshold = 0
    /\ min_area = 0
    /\ previous_frame = None
    /\ caller_frame = None
    /\ inputs = <<>>
    /\ verdicts = <<>>
    /\ boxes = {}
    /\ contours = {}

\* MotionDetector.__init__: stores its arguments; previous_frame is None.
Construct ==
    /\ det_pc = "none"
    /\ \E cfg \in DetectorConfigs :
        /\ threshold' = cfg[1]
        /\ min_area' = cfg[2]
    /\ previous_frame' = None
    /\ det_pc' = "ready"
    /\ UNCHANGED <<caller_frame, inputs, verdicts, boxes, contours>>
    /\ UNCHANGED outsideDetector

\* Mutant of KeptContours: a contour of area exactly min_area is skipped too.
KeptContoursAbove(found, min_a) == {c \in found : c.area2 > 2 * min_a}

\* Lines 122-125: the contours the loop does not skip, those whose area is
\* not below min_area.
KeptContours(found, min_a) == {c \in found : ~(c.area2 < 2 * min_a)}

\* Mutant of NextReference: the reference is kept when motion was detected.
NextReferenceWhenStill(prev, gray, motion) == IF motion THEN prev ELSE gray

\* Line 134: self.previous_frame = gray, whatever the verdict.
NextReference(prev, gray, motion) == gray

\* MotionDetector.detect_motion(frame) with self.previous_frame = prev:
\* the verdict returned, the frame object's content after the call (the
\* object returned is the one passed in), the new self.previous_frame, the
\* contours found and the boxes drawn.
detect_motion(f, prev, thr, min_a) ==
    LET gray == GaussianBlur(cvtColor(f))
    IN  IF IsNone(prev)
        THEN [kind |-> "ok", motion |-> FALSE, frame |-> f, previous_frame |-> gray,
              contours |-> {}, boxes |-> {}]
        ELSE IF ~SameShape(prev, gray)
        THEN [kind |-> "cv2.error", motion |-> FALSE, frame |-> f, previous_frame |-> prev,
              contours |-> {}, boxes |-> {}]
        ELSE LET frame_delta == absdiff(prev, gray)
                 thresh == dilate(ThresholdBinary(frame_delta, thr), DilateIterations)
                 found == {[area2 |-> contourArea2(C, thresh.h, thresh.w),
                            rect |-> boundingRect(C, thresh.w)] : C \in findContours(thresh)}
                 kept == KeptContours(found, min_a)
                 motion_detected_ == kept # {}
             IN  [kind |-> "ok", motion |-> motion_detected_,
                  frame |-> DrawAll(f, {c.rect : c \in kept}),
                  previous_frame |-> NextReference(prev, gray, motion_detected_),
                  contours |-> found, boxes |-> {c.rect : c \in kept}]

\* One call motion_detected, processed_frame = self.detect_motion(frame).
DetectMotion ==
    /\ det_pc = "ready"
    /\ Len(inputs) < MaxCalls
    /\ \E id \in DOMAIN ContourFrames :
        \E r \in {detect_motion(ContourFrames[id], previous_frame, threshold, min_area)} :
            /\ inputs' = Append(inputs, id)
            /\ verdicts' = Append(verdicts, r.motion)
            /\ caller_frame' = r.frame
            /\ previous_frame' = r.previous_frame
            /\ boxes' = r.boxes
            /\ contours' = r.contours
    /\ UNCHANGED <<det_pc, threshold, min_area>>
    /\ UNCHANGED outsideDetector

NextContour == Construct \/ DetectMotion

InitContour == InitDetector /\ IdleDriver /\ IdlePct

SpecContour == InitContour /\ [][NextContour]_vars

(***************************************************************************)
(* Inputs of the percentage variant: a uniform previous frame and a        *)
(* current frame that differs from it in its first k pixels.               *)
(***************************************************************************)

\* Frame shapes <<h, w>>; 25 x 40 has the 1000 pixels at which 3 changed
\* pixels are exactly 0.30 percent; 0 x 3 is an array without pixels.
PctShapes == {<<0, 3>>, <<2, 2>>, <<2, 3>>, <<25, 40>>}

\* The largest number of changed pixels.
MaxChanged == 4

\* Pixel pairs <<previous, current>> with the absolute difference of their
\* grayscale values (blue alone is 29, green alone 150, red alone 76).
PctPixelPairs ==
    { [prev |-> Solid(100), cur |-> Solid(100), diff |-> 0],
      [prev |-> Solid(100), cur |-> Solid(124), diff |-> 24],
      [prev |-> Solid(100), cur |-> Solid(125), diff |-> 25],
      [prev |-> Solid(100), cur |-> Solid(126), diff |-> 26],
      [prev |-> Solid(126), cur |-> Solid(100), diff |-> 26],
      [prev |-> Solid(4), cur |-> <<255, 0, 0>>, diff |-> 25],
      [prev |-> Solid(0), cur |-> <<255, 0, 0>>, diff |-> 29],
      [prev |-> <<0, 0, 255>>, cur |-> <<0, 255, 0>>, diff |-> 74] }

InitPct ==
    \E s1 \in PctShapes, s2 \in PctShapes, k \in 0..MaxChanged, pp \in PctPixelPairs :
        /\ pct_last = Uniform(s2, pp.prev)
        /\ pct_frame = Patched(s1, k, pp.prev, pp.cur)
        /\ pct_in = [n |-> s1[1] * s1[2],
                     k |-> IF k > s1[1] * s1[2] THEN s1[1] * s1[2] ELSE k,
                     diff |-> pp.diff, same |-> (s1 = s2)]
        /\ pct_result = [kind |-> "none", value |-> FALSE]
        /\ IdleDriver
        /\ IdleDetector

\* One call motion_detected = self.was_motion_detected(frame, last_frame).
CallWasMotionDetected ==
    /\ pct_result.kind = "none"
    /\ pct_result' = was_motion_detected(pct_frame, pct_last)
    /\ UNCHANGED <<pct_frame, pct_last, pct_in>>
    /\ UNCHANGED outsidePct

NextPct == CallWasMotionDetected

SpecPct == InitPct /\ [][NextPct]_vars

Init == InitDriver /\ IdlePct /\ IdleDetector

Spec == Init /\ [][Next]_vars

\* The steps run takes by itself: the interpreter goes on to the next line
\* as long as there is one; a Ctrl+C and the calls made before run are not
\* among them.
RunStep ==
    \/ InitialRead
    \/ CheckLimit
    \/ ReadFrame
    \/ RetrySleep
    \/ Detect
    \/ React
    \/ Count
    \/ Save
    \/ Sleep
    \/ ExceptKeyboardInterrupt
    \/ cleanup
    \/ print_summary

\* The driver, whose run does not stop between two lines.
SpecLive == Init /\ [][Next]_vars /\ WF_vars(RunStep)

(***************************************************************************)
(* The claims.                                                             *)
(***************************************************************************)

\* C1: the first detection step of a run, which has no frame processed before
\* it, reports no motion and raises nothing.
C1_FirstDetectionNoMotion ==
    detect_calls = 1 => (~motion_detected /\ exc # "cv2.error")

C3_ReferenceIsLastFrameBlurred ==
    LET n == Len(inputs)
    IN  /\ (n = 0) = IsNone(previous_frame)
        /\ n >= 1 =>
               /\ previous_frame = GaussianBlur(cvtColor(ContourFrames[inputs[n]]))
               /\ verdicts[1] = FALSE
        /\ n >= 2 =>
               /\ inputs[n] = inputs[n - 1] => verdicts[n] = FALSE
               /\ verdicts[n] =
                      detect_motion(ContourFrames[inputs[n]],
                                    GaussianBlur(cvtColor(ContourFrames[inputs[n - 1]])),
                                    threshold, min_area).motion

\* Frames A, A, B: False, False, then motion of B against A, and the
\* reference is B blurred, which is not B's grayscale content itself.
C3_Witness ==
    /\ inputs = <<1, 1, 3>>
    /\ verdicts = <<FALSE, FALSE, TRUE>>
    /\ previous_frame = GaussianBlur(cvtColor(ContourFrames[3]))
    /\ previous_frame # cvtColor(ContourFrames[3])

\* C4: on every call after the first, detect_motion returns True if and only
\* if some contour of the dilated mask has an area of at least min_area, and
\* the boxes it draws are the bounding rectangles of exactly those contours.
C4_MotionIffSurvivingContour ==
    Len(inputs) >= 2 =>
        LET surviving == {c \in contours : c.area2 >= 2 * min_area}
        IN  /\ verdicts[Len(verdicts)] = (surviving # {})
            /\ boxes = {c.rect : c \in surviving}

\* A contour of area exactly min_area = 14 survives, next to one of area 26.
C4_Witness ==
    /\ Len(inputs) >= 2
    /\ min_area = 14
    /\ contours = {[area2 |-> 28, rect |-> [x |-> 0, y |-> 0, w |-> 8, h |-> 3]],
                   [area2 |-> 52, rect |-> [x |-> 16, y |-> 0, w |-> 14, h |-> 3]]}
    /\ boxes = {[x |-> 0, y |-> 0, w |-> 8, h |-> 3], [x |-> 16, y |-> 0, w |-> 14, h |-> 3]}
    /\ verdicts[Len(verdicts)] = TRUE

\* C5: after a call of detect_motion the frame object passed in has the
\* content it had before the call.
C5_InputFrameUnchanged ==
    Len(inputs) > 0 => caller_frame = ContourFrames[inputs[Len(inputs)]]

\* C6: a detection call on frames of different shapes fails for that call
\* alone: it leaves no exception in flight in the driver, whose loop goes on.
C6_MismatchFatalToCallOnly ==
    detect_failure = "mismatch" => (exc # "cv2.error" /\ pc \in TryLines \cup {"except"})

\* The configurations a detector may be constructed with.
ValidConfiguration(thr, min_a) == thr >= 0 /\ thr <= 255 /\ min_a >= 0

\* C7: no detection step ever runs on a detector whose intensity threshold is
\* outside [0, 255] or whose minimum area is negative.
C7_NoDetectionWithInvalidConfiguration ==
    Len(inputs) > 0 => ValidConfiguration(threshold, min_area)

\* C8: a run that was connected and interrupted has, when it exits, released
\* the capture handle and called cleanup and then print_summary, once each.
C8_InterruptReleasesThenSummarises ==
    (connected /\ interrupted /\ pc \in {"done", "raised"}) =>
        /\ cap # "open"
        /\ cleanup_calls = 1
        /\ summary_calls = 1

\* C9: a step whose read fails does not invoke the detector and leaves
\* frame_count, the retained previous frame and the motion reports as they
\* were; and the detector is never handed an absent frame.
C9_FailedReadSkipsDetector ==
    [][/\ (pc = "read" /\ pc' \in {"retry_sleep", "cleanup"}) =>
            /\ frame_count' = frame_count
            /\ last_frame' = last_frame
            /\ detect_calls' = detect_calls
            /\ motion_reports' = motion_reports
       /\ pc' = "detect" => (~IsNone(frame') /\ ~IsNone(last_frame'))]_vars

C11_DueSaveWritesAndRunContinues ==
    [][(/\ pc = "save"
        /\ Truthy(save_interval)
        /\ frame_count % save_interval = 0
        /\ pc' # "except") => (pc' = "sleep" /\ exc' = exc)]_vars

\* C12: with max_frames an integer M >= 0, a run never has processed more
\* than M frames nor invoked the detector more than M times, and it leaves
\* the loop without a failure only with frame_count = M.
C12_MaxFramesBoundsTheRun ==
    (max_frames # NoneArg /\ pc # "new") =>
        /\ frame_count <= max_frames
        /\ detect_calls <= max_frames

\* C13: a detection call on two identical frames counts no changed pixel and
\* returns False; and a run over an image source, which delivers the same
\* image at every read, reports motion on no frame and fails on none.
C13_IdenticalFramesNoMotion ==
    /\ (pc = "react" /\ frame = last_frame) =>
           /\ count_nonzero(ThresholdBinary(absdiff(cvtColor(frame), cvtColor(last_frame)),
                                            IntensityThreshold)) = 0
           /\ ~motion_detected
    /\ source_type = "image" =>
           /\ ~motion_detected
           /\ motion_reports = 0
           /\ detect_failure = "none"

\* An image source after three processed frames: no motion was reported.
C13_Witness ==
    /\ source_type = "image"
    /\ pc = "check"
    /\ frame_count = 3
    /\ detect_calls = 3
    /\ ~IsNone(frame)
    /\ frame = last_frame
    /\ motion_reports = 0

\* C14: a detection call in which either frame has no pixel fails with the
\* failure of its own type, EmptyFrame, and returns no verdict.
C14_EmptyFrameFailsTyped ==
    (pct_result.kind # "none" /\ (IsEmpty(pct_frame) \/ IsEmpty(pct_last))) =>
        pct_result.kind = "EmptyFrame"

\* C15: a run over a video file, with max_frames unset or larger than the
\* number of frames of the file, eventually leaves run.
C15_FiniteVideoRunTerminates ==
    (/\ source_type = "video"
     /\ pc = "init_read"
     /\ (max_frames = NoneArg \/ max_frames > video_left))
        ~> (pc \in {"done", "raised"})

====
